---- MODULE Spec2Model ----
(***************************************************************************)
(* Model of dashboard_app.py: a Streamlit script that is re-executed from  *)
(* top to bottom on every widget interaction.  One action per widget; each *)
(* action stores the widget's new value and runs the whole script once.    *)
(***************************************************************************)
EXTENDS Integers, Sequences, FiniteSets, TLC

VARIABLES
    df,                  \* the DataFrame returned by load_data()
    selected_regions,    \* value of the Region multiselect
    selected_categories, \* value of the Category multiselect
    date_range,          \* value of the date_input: a tuple of 0, 1 or 2 dates
    outcome,             \* how the script run ended: "exception", "warning", "dashboard"
    filtered_df,         \* the filtered DataFrame (<<>> also when the name is unbound)
    total_sales,         \* KPI, None when the name is unbound
    avg_sales_per_unit,  \* KPI, None when the name is unbound
    total_units,         \* KPI, None when the name is unbound
    sales_by_category,   \* groupby result, None when unbound
    sales_by_region,     \* groupby result, None when unbound
    sales_trend,         \* groupby result, None when unbound
    x_axis_options,      \* options of the selectbox (<<>> when it is not rendered)
    selected_x_axis,     \* value of the selectbox, None when it is not rendered
    sales_by_dimension   \* groupby result, None when unbound

vars == <<df, selected_regions, selected_categories, date_range, outcome,
          filtered_df, total_sales, avg_sales_per_unit, total_units,
          sales_by_category, sales_by_region, sales_trend,
          x_axis_options, selected_x_axis, sales_by_dimension>>

\* A Python name that is not bound / a widget that is not rendered.
None == <<>>
Some(v) == <<v>>

-----------------------------------------------------------------------------
(* 1. Data loading *)

\* The CSV literal: header and 20 rows; a date is its three numeric fields.
data_csv_header == <<"Date", "Region", "Category", "Product", "Sales", "Units">>

data_csv == <<
    [Date |-> <<2023, 1, 1>>, Region |-> "East", Category |-> "Electronics", Product |-> "Laptop", Sales |-> 1200, Units |-> 1],
    [Date |-> <<2023, 1, 1>>, Region |-> "West", Category |-> "Clothing", Product |-> "T-Shirt", Sales |-> 25, Units |-> 2],
    [Date |-> <<2023, 1, 2>>, Region |-> "East", Category |-> "Food", Product |-> "Milk", Sales |-> 5, Units |-> 1],
    [Date |-> <<2023, 1, 2>>, Region |-> "Central", Category |-> "Electronics", Product |-> "Mouse", Sales |-> 30, Units |-> 1],
    [Date |-> <<2023, 1, 3>>, Region |-> "West", Category |-> "Electronics", Product |-> "Keyboard", Sales |-> 75, Units |-> 1],
    [Date |-> <<2023, 1, 3>>, Region |-> "East", Category |-> "Clothing", Product |-> "Jeans", Sales |-> 60, Units |-> 1],
    [Date |-> <<2023, 1, 4>>, Region |-> "Central", Category |-> "Food", Product |-> "Bread", Sales |-> 3, Units |-> 1],
    [Date |-> <<2023, 1, 4>>, Region |-> "East", Category |-> "Electronics", Product |-> "Monitor", Sales |-> 300, Units |-> 1],
    [Date |-> <<2023, 1, 5>>, Region |-> "West", Category |-> "Food", Product |-> "Cheese", Sales |-> 15, Units |-> 1],
    [Date |-> <<2023, 1, 5>>, Region |-> "Central", Category |-> "Clothing", Product |-> "Jacket", Sales |-> 150, Units |-> 1],
    [Date |-> <<2023, 1, 6>>, Region |-> "East", Category |-> "Electronics", Product |-> "Laptop", Sales |-> 1100, Units |-> 1],
    [Date |-> <<2023, 1, 6>>, Region |-> "West", Category |-> "Clothing", Product |-> "Socks", Sales |-> 10, Units |-> 2],
    [Date |-> <<2023, 1, 7>>, Region |-> "Central", Category |-> "Food", Product |-> "Eggs", Sales |-> 7, Units |-> 1],
    [Date |-> <<2023, 1, 7>>, Region |-> "East", Category |-> "Electronics", Product |-> "Webcam", Sales |-> 40, Units |-> 1],
    [Date |-> <<2023, 1, 8>>, Region |-> "West", Category |-> "Electronics", Product |-> "Printer", Sales |-> 200, Units |-> 1],
    [Date |-> <<2023, 1, 8>>, Region |-> "Central", Category |-> "Clothing", Product |-> "Dress", Sales |-> 80, Units |-> 1],
    [Date |-> <<2023, 1, 9>>, Region |-> "East", Category |-> "Food", Product |-> "Yogurt", Sales |-> 8, Units |-> 1],
    [Date |-> <<2023, 1, 9>>, Region |-> "West", Category |-> "Electronics", Product |-> "Headphones", Sales |-> 90, Units |-> 1],
    [Date |-> <<2023, 1, 10>>, Region |-> "Central", Category |-> "Electronics", Product |-> "Speaker", Sales |-> 60, Units |-> 1],
    [Date |-> <<2023, 1, 10>>, Region |-> "East", Category |-> "Clothing", Product |-> "Hat", Sales |-> 20, Units |-> 1]
>>

\* pd.to_datetime followed by .dt.date: a calendar date, ordered chronologically.
to_datetime(ymd) == ymd[1] * 10000 + ymd[2] * 100 + ymd[3]

\* load_data(): parse the CSV and convert the Date column.
load_data ==
    [i \in 1..Len(data_csv) |-> [data_csv[i] EXCEPT !.Date = to_datetime(@)]]

\* frame.columns.tolist()
columns(frame) == data_csv_header

\* frame[col].unique(), as a set
unique(frame, col) == {frame[i][col] : i \in 1..Len(frame)}

\* frame['Date'].min().date() / .max().date()
min_date(frame) ==
    CHOOSE d \in unique(frame, "Date") : \A e \in unique(frame, "Date") : d <= e
max_date(frame) ==
    CHOOSE d \in unique(frame, "Date") : \A e \in unique(frame, "Date") : e <= d

\* The calendar days the date_input lets the user pick (min_value..max_value).
IsCalendarDate(n) ==
    LET y == n \div 10000
        m == (n \div 100) % 100
        d == n % 100
        leap == (y % 4 = 0 /\ y % 100 # 0) \/ y % 400 = 0
        dim == IF m \in {4, 6, 9, 11} THEN 30
               ELSE IF m = 2 THEN (IF leap THEN 29 ELSE 28) ELSE 31
    IN  m \in 1..12 /\ d \in 1..dim
PickableDates(frame) ==
    {n \in min_date(frame)..max_date(frame) : IsCalendarDate(n)}

\* Values st.date_input can return for a range input: (), (d,), (start, end).
DateInputs(frame) ==
    {<<>>}
    \cup {<<d>> : d \in PickableDates(frame)}
    \cup {p \in PickableDates(frame) \X PickableDates(frame) : p[1] <= p[2]}

-----------------------------------------------------------------------------
(* 2. Filtering *)

\* FilterMask with an exclusive upper date bound.
FilterMask_exclusive_end(frame, regions, categories, start_date, end_date) ==
    [i \in 1..Len(frame) |->
        /\ frame[i].Region \in regions
        /\ frame[i].Category \in categories
        /\ frame[i].Date >= start_date
        /\ frame[i].Date < end_date]

\* The boolean mask of lines 90-93, one entry per row of frame.
FilterMask(frame, regions, categories, start_date, end_date) ==
    [i \in 1..Len(frame) |->
        /\ frame[i].Region \in regions
        /\ frame[i].Category \in categories
        /\ frame[i].Date >= start_date
        /\ frame[i].Date <= end_date]

\* frame[mask]: the rows whose mask entry is true, in frame order.
RECURSIVE BooleanIndex(_, _, _)
BooleanIndex(frame, mask, i) ==
    IF i > Len(frame) THEN <<>>
    ELSE (IF mask[i] THEN <<frame[i]>> ELSE <<>>) \o BooleanIndex(frame, mask, i + 1)

\* ApplyFilters with the result of the filter assigned back to df.
ApplyFilters_rebinds_df(frame, regions, categories, dates) ==
    IF Len(dates) > 0
    THEN IF Len(dates) # 2
         THEN [raised |-> TRUE, df |-> frame, filtered_df |-> <<>>]
         ELSE LET view == BooleanIndex(frame,
                       FilterMask(frame, regions, categories, dates[1], dates[2]), 1)
              IN  [raised |-> FALSE, df |-> view, filtered_df |-> view]
    ELSE [raised |-> FALSE, df |-> frame, filtered_df |-> frame]

\* Lines 87-96.  Unpacking a tuple whose length is not 2 raises ValueError.
\* Yields the script's df binding too: the filter binds only filtered_df.
ApplyFilters(frame, regions, categories, dates) ==
    IF Len(dates) > 0
    THEN IF Len(dates) # 2
         THEN [raised |-> TRUE, df |-> frame, filtered_df |-> <<>>]
         ELSE [raised |-> FALSE, df |-> frame,
               filtered_df |->
                   BooleanIndex(frame,
                       FilterMask(frame, regions, categories, dates[1], dates[2]), 1)]
    ELSE [raised |-> FALSE, df |-> frame, filtered_df |-> frame]

\* empty with the test dropped: the dashboard branch is always taken.
empty_never(frame) == FALSE

\* frame.empty
empty(frame) == Len(frame) = 0

-----------------------------------------------------------------------------
(* 3. KPIs and aggregations *)

\* sum that skips the first row.
sum_skips_first(frame, col) ==
    IF Len(frame) = 0 THEN 0 ELSE
    LET RECURSIVE From(_)
        From(i) == IF i > Len(frame) THEN 0 ELSE frame[i][col] + From(i + 1)
    IN  From(2)

\* frame[col].sum()
RECURSIVE SumFrom(_, _, _)
SumFrom(frame, col, i) ==
    IF i > Len(frame) THEN 0 ELSE frame[i][col] + SumFrom(frame, col, i + 1)
sum(frame, col) == SumFrom(frame, col, 1)

RECURSIVE GCD(_, _)
GCD(a, b) == IF b = 0 THEN a ELSE GCD(b, a % b)

\* numpy int64 / int64 true division: the exact quotient as whole part plus
\* reduced fraction; x/0 gives inf and 0/0 gives nan (no exception).
TrueDivide(a, b) ==
    IF b = 0
    THEN (IF a = 0 THEN [kind |-> "nan"] ELSE [kind |-> "inf"])
    ELSE LET g == GCD(a % b, b)
         IN  [kind |-> "finite", whole |-> a \div b,
              num |-> (a % b) \div g, den |-> b \div g]

\* Rows are visited in order and each adds its Sales to the entry of its key,
\* created on first appearance.
EmptyGroups == [k \in {} |-> 0]
RECURSIVE GroupAccumulate(_, _, _, _)
GroupAccumulate(frame, col, i, acc) ==
    IF i > Len(frame) THEN acc
    ELSE LET k == frame[i][col]
             v == frame[i].Sales
         IN  GroupAccumulate(frame, col, i + 1,
                 IF k \in DOMAIN acc
                 THEN [acc EXCEPT ![k] = @ + v]
                 ELSE (k :> v) @@ acc)
\* groupby_sum keeping the last Sales of a group instead of adding it.
groupby_sum_overwrites(frame, col) ==
    [k \in {frame[i][col] : i \in 1..Len(frame)} |->
        LET last == CHOOSE i \in 1..Len(frame) :
                        /\ frame[i][col] = k
                        /\ \A j \in (i + 1)..Len(frame) : frame[j][col] # k
        IN  frame[last].Sales]

\* groupby_sum with an entry for every value of the column in the dataset
\* (zero where the frame has no such row).
groupby_sum_all_keys(frame, col) ==
    GroupAccumulate(frame, col, 1, [k \in unique(load_data, col) |-> 0])

\* frame.groupby(col)['Sales'].sum()
groupby_sum(frame, col) == GroupAccumulate(frame, col, 1, EmptyGroups)

\* XAxisOptions that forgets to exclude Units.
XAxisOptions_keeps_units(frame) ==
    SelectSeq(columns(frame), LAMBDA c : c \notin {"Sales", "Date"})

\* Lines 172-174: the columns offered by the selectbox.
XAxisOptions(frame) ==
    SelectSeq(columns(frame), LAMBDA c : c \notin {"Sales", "Date", "Units"})

\* list.index(x)
index(list, x) == CHOOSE i \in 1..Len(list) : list[i] = x /\ \A j \in 1..(i - 1) : list[j] # x

\* Line 179: the selectbox default.
DefaultXAxis(options) ==
    IF \E i \in 1..Len(options) : options[i] = "Product"
    THEN options[index(options, "Product")]
    ELSE options[1]

-----------------------------------------------------------------------------
(* 4. One execution of the script, top to bottom *)

\* widget_x is the selectbox's stored value: None when the previous run did
\* not render it, in which case it is created with its default.
RunScript(regions, categories, dates, widget_x) ==
    LET loaded == load_data                                        \* line 46
        f == ApplyFilters(loaded, regions, categories, dates)      \* lines 87-96
        view == f.filtered_df
        unbound == [total_sales |-> None, avg_sales_per_unit |-> None,
                    total_units |-> None, sales_by_category |-> None,
                    sales_by_region |-> None, sales_trend |-> None,
                    x_axis_options |-> <<>>, selected_x_axis |-> None,
                    sales_by_dimension |-> None]
    IN  IF f.raised
        THEN [df |-> f.df, filtered_df |-> view, outcome |-> "exception"] @@ unbound
        ELSE IF empty(view)                                        \* line 100
        THEN [df |-> f.df, filtered_df |-> view, outcome |-> "warning"] @@ unbound
        ELSE LET options == XAxisOptions(view)
                 x == IF widget_x = None THEN DefaultXAxis(options) ELSE widget_x[1]
             IN  [df |-> f.df, filtered_df |-> view, outcome |-> "dashboard",
                  total_sales |-> Some(sum(view, "Sales")),
                  avg_sales_per_unit |->
                      Some(TrueDivide(sum(view, "Sales"), sum(view, "Units"))),
                  total_units |-> Some(sum(view, "Units")),
                  sales_by_category |-> Some(groupby_sum(view, "Category")),
                  sales_by_region |-> Some(groupby_sum(view, "Region")),
                  sales_trend |-> Some(groupby_sum(view, "Date")),
                  x_axis_options |-> options,
                  selected_x_axis |-> Some(x),
                  sales_by_dimension |->
                      IF x # "" THEN Some(groupby_sum(view, x)) ELSE None]

\* The state left by a script run with the given widget values.
Rerun(regions, categories, dates, widget_x) ==
    \E r \in {RunScript(regions, categories, dates, widget_x)} :
        /\ selected_regions' = regions
        /\ selected_categories' = categories
        /\ date_range' = dates
        /\ df' = r.df
        /\ outcome' = r.outcome
        /\ filtered_df' = r.filtered_df
        /\ total_sales' = r.total_sales
        /\ avg_sales_per_unit' = r.avg_sales_per_unit
        /\ total_units' = r.total_units
        /\ sales_by_category' = r.sales_by_category
        /\ sales_by_region' = r.sales_by_region
        /\ sales_trend' = r.sales_trend
        /\ x_axis_options' = r.x_axis_options
        /\ selected_x_axis' = r.selected_x_axis
        /\ sales_by_dimension' = r.sales_by_dimension

\* First run: every widget holds its default (lines 66, 73, 81, 179).
Init ==
    LET d == load_data
        r == RunScript(unique(d, "Region"), unique(d, "Category"),
                       <<min_date(d), max_date(d)>>, None)
    IN  /\ selected_regions = unique(d, "Region")
        /\ selected_categories = unique(d, "Category")
        /\ date_range = <<min_date(d), max_date(d)>>
        /\ df = r.df
        /\ outcome = r.outcome
        /\ filtered_df = r.filtered_df
        /\ total_sales = r.total_sales
        /\ avg_sales_per_unit = r.avg_sales_per_unit
        /\ total_units = r.total_units
        /\ sales_by_category = r.sales_by_category
        /\ sales_by_region = r.sales_by_region
        /\ sales_trend = r.sales_trend
        /\ x_axis_options = r.x_axis_options
        /\ selected_x_axis = r.selected_x_axis
        /\ sales_by_dimension = r.sales_by_dimension

\* The user changes the Region multiselect (lines 63-67).
ChangeRegions ==
    \E S \in SUBSET unique(df, "Region") :
        /\ S # selected_regions
        /\ Rerun(S, selected_categories, date_range, selected_x_axis)

\* The user changes the Category multiselect (lines 70-74).
ChangeCategories ==
    \E S \in SUBSET unique(df, "Category") :
        /\ S # selected_categories
        /\ Rerun(selected_regions, S, date_range, selected_x_axis)

\* The user changes the date input (lines 79-84).
ChangeDateRange ==
    \E dates \in DateInputs(df) :
        /\ dates # date_range
        /\ Rerun(selected_regions, selected_categories, dates, selected_x_axis)

\* The user changes the selectbox, which exists only on the dashboard
\* branch (lines 176-180).
ChangeXAxis ==
    /\ outcome = "dashboard"
    /\ \E i \in 1..Len(x_axis_options) :
        /\ Some(x_axis_options[i]) # selected_x_axis
        /\ Rerun(selected_regions, selected_categories, date_range,
                 Some(x_axis_options[i]))

Next == ChangeRegions \/ ChangeCategories \/ ChangeDateRange \/ ChangeXAxis

Spec == Init /\ [][Next]_vars

-----------------------------------------------------------------------------
(* Properties *)

AllRegions == unique(load_data, "Region")
AllCategories == unique(load_data, "Category")

\* The three filter predicates, as the specification states them; an absent
\* date range places no constraint on the date.
SatisfiesFilterSpec(row) ==
    /\ row.Region \in selected_regions
    /\ row.Category \in selected_categories
    /\ Len(date_range) = 2 => (date_range[1] <= row.Date /\ row.Date <= date_range[2])

\* Sum of the values of a mapping.
RECURSIVE SumValues(_)
SumValues(f) ==
    IF DOMAIN f = {} THEN 0
    ELSE LET k == CHOOSE x \in DOMAIN f : TRUE
         IN  f[k] + SumValues([x \in DOMAIN f \ {k} |-> f[x]])

\* Sum of Sales over a set of row positions of the filtered view.
RECURSIVE SalesOver(_)
SalesOver(I) ==
    IF I = {} THEN 0
    ELSE LET i == CHOOSE x \in I : TRUE
         IN  filtered_df[i].Sales + SalesOver(I \ {i})

\* C1: every record of the filtered view is a record of the dataset and
\* satisfies the region, category and date-range predicates of the FilterSpec.
C1_ViewSatisfiesPredicates ==
    outcome # "exception" =>
        \A i \in 1..Len(filtered_df) :
            /\ \E j \in 1..Len(df) : df[j] = filtered_df[i]
            /\ SatisfiesFilterSpec(filtered_df[i])

\* C2: an empty region selection or an empty category selection gives an
\* empty filtered view, whatever the date input is.
C2_EmptySelectionEmptyView ==
    (outcome # "exception" /\ (selected_regions = {} \/ selected_categories = {}))
        => filtered_df = <<>>

\* C3: the filter step never ends in an error, whether the date input holds
\* zero, one or two dates.
C3_FilterNeverRaises ==
    outcome # "exception"

\* C4: an empty filtered view ends the run on the notice, with no KPI and no
\* aggregation computed; the average is only computed with total units > 0,
\* so it is never a division-by-zero value.
NothingComputed ==
    /\ total_sales = None /\ avg_sales_per_unit = None /\ total_units = None
    /\ sales_by_category = None /\ sales_by_region = None /\ sales_trend = None
    /\ sales_by_dimension = None /\ selected_x_axis = None
C4_EmptyViewShowsNotice ==
    /\ (outcome # "exception" /\ filtered_df = <<>>)
           => (outcome = "warning" /\ NothingComputed)
    /\ outcome = "warning" => (filtered_df = <<>> /\ NothingComputed)
    /\ avg_sales_per_unit # None =>
           /\ total_units # None
           /\ total_units[1] > 0
           /\ avg_sales_per_unit[1].kind = "finite"
C4_Witness ==
    /\ outcome = "warning"
    /\ selected_regions = {"East"} /\ selected_categories = {"Food"}
    /\ date_range = <<20230103, 20230108>>

\* C5: on every view on which aggregations are computed, the per-group Sales
\* of each aggregation (Category, Region, Date, chosen dimension) add up to
\* the totalSales KPI of that view.
C5_GroupSumsAddUpToTotal ==
    outcome = "dashboard" =>
        /\ SumValues(sales_by_category[1]) = total_sales[1]
        /\ SumValues(sales_by_region[1]) = total_sales[1]
        /\ SumValues(sales_trend[1]) = total_sales[1]
        /\ sales_by_dimension # None
        /\ SumValues(sales_by_dimension[1]) = total_sales[1]
C5_Witness ==
    /\ outcome = "dashboard"
    /\ filtered_df = load_data
    /\ Len(date_range) = 2
    /\ Cardinality(DOMAIN sales_by_region[1]) = 3
    /\ SumValues(sales_by_region[1]) = 3478
    /\ selected_x_axis = Some("Category")

\* C6: the key set of each aggregation is exactly the set of values of the
\* grouping field occurring in the filtered view, and each entry is the sum of
\* Sales of the view's records with that key.
IsGroupSumOfView(agg, col) ==
    /\ DOMAIN agg = {filtered_df[i][col] : i \in 1..Len(filtered_df)}
    /\ \A k \in DOMAIN agg :
           agg[k] = SalesOver({i \in 1..Len(filtered_df) : filtered_df[i][col] = k})
C6_GroupKeysAreViewValues ==
    outcome = "dashboard" =>
        /\ IsGroupSumOfView(sales_by_category[1], "Category")
        /\ IsGroupSumOfView(sales_by_region[1], "Region")
        /\ IsGroupSumOfView(sales_trend[1], "Date")
        /\ sales_by_dimension # None
        /\ IsGroupSumOfView(sales_by_dimension[1], selected_x_axis[1])
\* A selected category has no record in the view, and another has several.
C6_Witness ==
    /\ outcome = "dashboard"
    /\ selected_categories = AllCategories
    /\ "Food" \notin DOMAIN sales_by_category[1]
    /\ \E k \in DOMAIN sales_by_category[1] :
           Cardinality({i \in 1..Len(filtered_df) : filtered_df[i].Category = k}) > 1

\* C7: with a complete date range the filtered view is exactly the rows of the
\* dataset, in dataset order, whose Region and Category are selected and whose
\* Date lies in [start, end], both bounds included; with everything selected
\* and start = end = 2023-01-03 it is the two records Keyboard and Jeans.
KeptPositions ==
    {j \in 1..Len(df) :
        /\ df[j].Region \in selected_regions
        /\ df[j].Category \in selected_categories
        /\ date_range[1] <= df[j].Date
        /\ df[j].Date <= date_range[2]}
NthKept(n) ==
    CHOOSE j \in KeptPositions : Cardinality({k \in KeptPositions : k < j}) = n - 1
C7_ViewIsOrderedSubsequence ==
    Len(date_range) = 2 =>
        /\ outcome # "exception"
        /\ Len(filtered_df) = Cardinality(KeptPositions)
        /\ \A n \in 1..Len(filtered_df) : filtered_df[n] = df[NthKept(n)]
        /\ (/\ selected_regions = AllRegions
            /\ selected_categories = AllCategories
            /\ date_range = <<20230103, 20230103>>)
               => [n \in 1..Len(filtered_df) |-> filtered_df[n].Product]
                      = <<"Keyboard", "Jeans">>
C7_Witness ==
    /\ selected_regions = AllRegions
    /\ selected_categories = AllCategories
    /\ date_range = <<20230103, 20230103>>
    /\ Len(filtered_df) = 2

\* C8: regions {East}, categories {Electronics} and the range 2023-01-01 to
\* 2023-01-10 give the four records Laptop(1200), Monitor(300), Laptop(1100),
\* Webcam(40), total sales 2640, total units 4 and average 660.
C8_ScenarioA ==
    (/\ selected_regions = {"East"}
     /\ selected_categories = {"Electronics"}
     /\ date_range = <<20230101, 20230110>>)
        => /\ outcome = "dashboard"
           /\ [n \in 1..Len(filtered_df) |->
                  <<filtered_df[n].Product, filtered_df[n].Sales>>]
                  = << <<"Laptop", 1200>>, <<"Monitor", 300>>,
                       <<"Laptop", 1100>>, <<"Webcam", 40>> >>
           /\ total_sales = Some(2640)
           /\ total_units = Some(4)
           /\ avg_sales_per_unit =
                  Some([kind |-> "finite", whole |-> 660, num |-> 0, den |-> 1])
C8_Witness ==
    /\ selected_regions = {"East"}
    /\ selected_categories = {"Electronics"}
    /\ date_range = <<20230101, 20230110>>
    /\ Len(filtered_df) = 4

\* C9: no interaction changes the dataset; a run whose FilterSpec equals that
\* of the run before it produces the same filtered view, KPIs and Category,
\* Region and Date aggregations; and after any sequence of interactions every
\* output equals what a first run with the same FilterSpec and the same
\* chosen dimension produces.
FilterSpec == <<selected_regions, selected_categories, date_range>>
FilterOutputs ==
    <<outcome, filtered_df, total_sales, avg_sales_per_unit, total_units,
      sales_by_category, sales_by_region, sales_trend>>
SameAsFirstRun ==
    LET fresh == RunScript(selected_regions, selected_categories, date_range, None)
        chosen == RunScript(selected_regions, selected_categories, date_range,
                            selected_x_axis)
    IN  /\ df = fresh.df
        /\ FilterOutputs =
               <<fresh.outcome, fresh.filtered_df, fresh.total_sales,
                 fresh.avg_sales_per_unit, fresh.total_units,
                 fresh.sales_by_category, fresh.sales_by_region, fresh.sales_trend>>
        /\ sales_by_dimension = chosen.sales_by_dimension
C10_DimensionIsGroupingColumn ==
    /\ selected_x_axis = Some("Product")
    /\ [](outcome = "dashboard" =>
            /\ x_axis_options = <<"Region", "Category", "Product">>
            /\ selected_x_axis # None
            /\ selected_x_axis[1] \in {"Region", "Category", "Product"}
            /\ \E i \in 1..Len(columns(df)) : columns(df)[i] = selected_x_axis[1]
            /\ sales_by_dimension # None)
    /\ [][(outcome # "dashboard" /\ outcome' = "dashboard")
            => selected_x_axis' = Some("Product")]_vars
C10_Witness ==
    /\ outcome = "dashboard"
    /\ selected_x_axis = Some("Category")
    /\ Len(filtered_df) < Len(df)
    /\ Cardinality(DOMAIN sales_by_dimension[1]) = 2

====
